---- MODULE Spec2Model ----
(***************************************************************************)
(* Model of src/main.py: extraction of civil-registry records from the     *)
(* tables of PDF documents and their load into a relational store.         *)
(*                                                                         *)
(* Python strings are modelled as sequences of one-character strings, so   *)
(* that searching, replacing, trimming, splitting and lower-casing are     *)
(* computed character by character as the code computes them.  Python's    *)
(* None is the value NoneVal, which is no text the program can produce     *)
(* (its only element is not a single character).                           *)
(*                                                                         *)
(* Four specifications share the variables:                                *)
(*   TaggerSpec  extract_name_and_date applied to one line                 *)
(*   TableSpec   process_table applied to one table                        *)
(*   DocSpec     extract_tables_from_pdf, one page per step                *)
(*   Spec        main's loop over the PDF files (FairSpec adds fairness)   *)
(***************************************************************************)
EXTENDS Integers, Sequences, FiniteSets

VARIABLES
    pc,          \* position of the running function
    text,        \* TaggerSpec: argument of extract_name_and_date
    tagged,      \* TaggerSpec: its return value
    table,       \* TableSpec: argument of process_table
    table_out,   \* TableSpec: its return value
    pdf_path,    \* DocSpec: argument of extract_tables_from_pdf
    pdf,         \* DocSpec: what pdfplumber yields for pdf_path
    page_i,      \* DocSpec: number of pages whose loop body has run or started
    concelho,    \* DocSpec: local variable concelho
    posto,       \* DocSpec: local variable posto
    file_type,   \* DocSpec: local variable file_type
    data,        \* DocSpec: local variable data
    ret,         \* DocSpec: the returned tuple
    walk,        \* Spec: the files os.walk(root_folder) yields, in its order
    pdf_files,   \* Spec: main's list of files, with each file's content and sink faults
    file_i,      \* Spec: number of files whose loop body has run
    handed,      \* Spec: per file, the data passed to insert_data_into_mysql
    db,          \* Spec: per file, the rows its insert left committed
    xlsx,        \* Spec: per file, the rows written to its spreadsheet
    save_to_excel \* Spec: the operator's answer to the spreadsheet prompt

tagVars   == <<text, tagged>>
tableVars == <<table, table_out>>
docVars   == <<pdf_path, pdf, page_i, concelho, posto, file_type, data, ret>>
mainVars  == <<walk, pdf_files, file_i, handed, db, xlsx, save_to_excel>>
vars      == <<pc, tagVars, tableVars, docVars, mainVars>>

----------------------------------------------------------------------------
(* Bounds of the model *)

MaxPieces == 3      \* pieces concatenated into a line given to the tagger
MaxLines  == 4      \* lines in the cell of a one-row table
MaxRows   == 3      \* rows of a table built from the sample rows
MaxPages  == 2      \* pages of a document
MaxFiles  == 2      \* files of the folder

----------------------------------------------------------------------------
(* Python values and string methods *)

NoneVal == <<"None">>

\* The characters of the model are those of ISO-8859-1 (code points 0 to 255):
\* its letters, digits and other numerals, its whitespace and its signs.  The
\* control characters that are no whitespace and the grave accent, which a
\* string cannot hold, are left out.  An operator that classifies a character
\* or changes its case is defined on these characters only (InClass).

\* \d of re: the decimal digits
Digits     == {"0","1","2","3","4","5","6","7","8","9"}
\* \s of re and the characters str.strip() removes (str.isspace): tab, line
\* feed, vertical tab, form feed, carriage return, the separators U+001C to
\* U+001F, space, next line U+0085 and no-break space U+00A0
Whitespace == {"\t","\n","","\f","\r","","","",""," ",""," "}
\* the cased letters: str.lower() takes UpperSeq[k] to LowerSeq[k] and leaves
\* every other character as it is
UpperSeq   == <<"A","B","C","D","E","F","G","H","I","J","K","L","M",
               "N","O","P","Q","R","S","T","U","V","W","X","Y","Z",
               "À","Á","Â","Ã","Ä","Å","Æ","Ç","È","É","Ê","Ë","Ì",
               "Í","Î","Ï","Ð","Ñ","Ò","Ó","Ô","Õ","Ö","Ø","Ù","Ú",
               "Û","Ü","Ý","Þ">>
LowerSeq   == <<"a","b","c","d","e","f","g","h","i","j","k","l","m",
               "n","o","p","q","r","s","t","u","v","w","x","y","z",
               "à","á","â","ã","ä","å","æ","ç","è","é","ê","ë","ì",
               "í","î","ï","ð","ñ","ò","ó","ô","õ","ö","ø","ù","ú",
               "û","ü","ý","þ">>
\* the letters without the other case among these characters
Uncased    == {"ª","µ","º","ß","ÿ"}
Letters    == {UpperSeq[k] : k \in 1..Len(UpperSeq)}
              \cup {LowerSeq[k] : k \in 1..Len(LowerSeq)} \cup Uncased
\* the numerals that are no decimal digits: \w takes them, \d does not
Numerals   == {"²","³","¹","¼","½","¾"}
\* the signs: neither \w nor \s
Signs      == {"!","\"","#","$","%","&","'","(",")","*","+",",","-",
               ".","/",":",";","<","=",">","?","@","[","\\","]","^",
               "{","|","}","~","¡","¢","£","¤","¥","¦","§","¨","©",
               "«","¬","­","®","¯","°","±","´","¶","·","¸","»","¿",
               "×","÷"}

\* \w of re (re.UNICODE): letters, digits, numerals and the underscore
WordChars  == Letters \cup Digits \cup Numerals \cup {"_"}

Alphabet   == WordChars \cup Whitespace \cup Signs

\* c is in the class cls of characters, c being a character of the model
InClass(c, cls) == CASE c \in Alphabet -> c \in cls

\* Only({F(x) : x \in {e}}) is F(e).  It is written this way where e is costly
\* and F uses it more than once: e is then evaluated once and x names its value.
Only(S) == CHOOSE x \in S : TRUE

\* bool(x) of a str-or-None value
Truthy(x) == x # NoneVal /\ x # <<>>

\* s[i:j] with 1-based inclusive bounds
Slice(s, i, j) == IF i > j THEN <<>> ELSE SubSeq(s, i, j)

\* s.startswith(pat, i-1)
OccursAt(s, pat, i) ==
    /\ i >= 1
    /\ i + Len(pat) - 1 <= Len(s)
    /\ \A k \in 1..Len(pat) : s[i + k - 1] = pat[k]

\* pat in s
Contains(s, pat) == \E i \in 1..(Len(s) + 1) : OccursAt(s, pat, i)

RECURSIVE LStrip(_)
LStrip(s) ==
    Only({ IF x # <<>> /\ InClass(Head(x), Whitespace) THEN LStrip(Tail(x)) ELSE x
           : x \in {s} })

RECURSIVE RStrip(_)
RStrip(s) ==
    Only({ IF x # <<>> /\ InClass(x[Len(x)], Whitespace)
           THEN RStrip(SubSeq(x, 1, Len(x) - 1)) ELSE x
           : x \in {s} })

\* s.strip()
Strip(s) == RStrip(LStrip(s))

\* s.rstrip('N')
RECURSIVE RStripN(_)
RStripN(s) ==
    Only({ IF x # <<>> /\ x[Len(x)] = "N"
           THEN RStripN(SubSeq(x, 1, Len(x) - 1)) ELSE x
           : x \in {s} })

\* s.replace(pat, '') for a non-empty pat: every non-overlapping occurrence,
\* found left to right, is removed
RECURSIVE ReplaceFrom(_, _, _)
ReplaceFrom(s, pat, i) ==
    IF i > Len(s) THEN <<>>
    ELSE IF OccursAt(s, pat, i) THEN ReplaceFrom(s, pat, i + Len(pat))
    ELSE <<s[i]>> \o ReplaceFrom(s, pat, i + 1)

Replace(s, pat) == ReplaceFrom(s, pat, 1)

\* s.split('\n'): the list of the pieces between the line breaks (never empty)
RECURSIVE SplitFrom(_, _, _)
SplitFrom(s, i, cur) ==
    IF i > Len(s) THEN <<cur>>
    ELSE IF s[i] = "\n" THEN <<cur>> \o SplitFrom(s, i + 1, <<>>)
    ELSE SplitFrom(s, i + 1, Append(cur, s[i]))

Split(s) == SplitFrom(s, 1, <<>>)

\* c.lower() for each character of the model
LowerOf ==
    [c \in Alphabet |->
        IF \E k \in 1..Len(UpperSeq) : UpperSeq[k] = c
        THEN LowerSeq[CHOOSE k \in 1..Len(UpperSeq) : UpperSeq[k] = c]
        ELSE c]

LowerChar(c) == LowerOf[c]

\* s.lower()
Lower(s) == [k \in 1..Len(s) |-> LowerChar(s[k])]

\* os.path.basename(p): what follows the last "/"
RECURSIVE Basename(_)
Basename(p) ==
    IF \E k \in 1..Len(p) : p[k] = "/"
    THEN Basename(SubSeq(p, (CHOOSE k \in 1..Len(p) : p[k] = "/") + 1, Len(p)))
    ELSE p

----------------------------------------------------------------------------
(* extract_name_and_date *)

\* re.match(r'\d{2}-\d{2}-\d{4}', s, pos=i-1)
DateAt(s, i) ==
    /\ i >= 1
    /\ i + 9 <= Len(s)
    /\ \A k \in {0, 1, 3, 4, 6, 7, 8, 9} : InClass(s[i + k], Digits)
    /\ \A k \in {2, 5} : s[i + k] = "-"

\* re.search(date_pattern, text) found something
HasDate(s) == \E i \in 1..Len(s) : DateAt(s, i)

\* match.group(): the leftmost match
FirstDate(s) ==
    LET i == CHOOSE j \in 1..Len(s) : DateAt(s, j) /\ \A h \in 1..(j - 1) : ~DateAt(s, h)
    IN  SubSeq(s, i, i + 9)

\* the branch "if match", date being match.group()
NameWithout(s, date) == [name |-> Strip(Replace(s, date)), date |-> date]

extract_name_and_date(text_arg) ==
    Only({ IF HasDate(s)
           THEN Only({NameWithout(s, date) : date \in {FirstDate(s)}})
           ELSE [name |-> s, date |-> NoneVal] : s \in {text_arg} })

----------------------------------------------------------------------------
(* extract_concelho_and_posto *)

ConcelhoLabel == <<"C","o","n","c","e","l","h","o">>
PostoLabel    == <<"P","o","s","t","o">>

\* the letters the classes of concelho_pattern list after \w\s
ListedLetters == {"ç","Ç","á","é","í","ó","ú","à","è","ì","ò","ù","ã",
                  "õ","â","ê","î","ô","û","ä","ë","ï","ö","ü","Ä","Ë",
                  "Ï","Ö","Ü","ñ","Ñ"}
\* [\w\s...] of the first group and [\w\s...-] of the second
RegionClass == WordChars \cup Whitespace \cup ListedLetters
PostoClass  == RegionClass \cup {"-"}

\* first index >= i whose character is outside cls (Len(s) + 1 if none)
RECURSIVE RunEnd(_, _, _)
RunEnd(s, i, cls) ==
    IF i <= Len(s) /\ InClass(s[i], cls) THEN RunEnd(s, i + 1, cls) ELSE i

\* last index < i whose character is no whitespace (0 if none)
RECURSIVE BackOverSpace(_, _)
BackOverSpace(s, i) ==
    IF i > 1 /\ InClass(s[i - 1], Whitespace) THEN BackOverSpace(s, i - 1) ELSE i - 1

\* The places of a match of concelho_pattern that starts at index st, for a
\* text in which both ':' are found.
\*   colon : the ':' after "Concelho\s*"
\*   stop  : the first character after that ':' outside the first group's class;
\*           it has to be the ':' of "Posto\s*:", since the class holds the
\*           letters of "Posto" and every whitespace
\*   lab   : where that "Posto" starts
\*   fin   : one past the run of the second group's class
RegionPlaces(s, st) ==
    Only({ Only({ [colon |-> colon,
                   stop  |-> stop,
                   lab   |-> BackOverSpace(s, stop) - Len(PostoLabel) + 1,
                   fin   |-> RunEnd(s, stop + 1, PostoClass)]
                  : stop \in {RunEnd(s, colon + 1, RegionClass)} })
           : colon \in {RunEnd(s, st + Len(ConcelhoLabel), Whitespace)} })

\* concelho_pattern matches at index st: "\s*(...+)\s*" needs at least one
\* character between the first ':' and "Posto", "\s*(...+)" at least one
\* after the second ':'
RegionMatchAt(s, st) ==
    /\ OccursAt(s, ConcelhoLabel, st)
    /\ \E colon \in {RunEnd(s, st + Len(ConcelhoLabel), Whitespace)} :
           /\ colon <= Len(s) /\ s[colon] = ":"
           /\ \E stop \in {RunEnd(s, colon + 1, RegionClass)} :
                  /\ stop <= Len(s) /\ s[stop] = ":"
                  /\ \E m \in {RegionPlaces(s, st)} :
                         /\ m.lab > m.colon + 1
                         /\ OccursAt(s, PostoLabel, m.lab)
                         /\ m.fin > m.stop + 1

RegionFound(s) == \E st \in 1..Len(s) : RegionMatchAt(s, st)

\* re.search takes the leftmost start that matches
RegionStart(s) ==
    CHOOSE st \in 1..Len(s) :
        RegionMatchAt(s, st) /\ \A h \in 1..(st - 1) : ~RegionMatchAt(s, h)

\* page_text None makes re.search raise; the except returns (None, None)
\* the branch "if match", m being the places of the match
RegionGroups(s, m) ==
    [concelho |-> Strip(Slice(s, m.colon + 1, m.lab - 1)),
     posto    |-> Strip(RStripN(Strip(Slice(s, m.stop + 1, m.fin - 1))))]

extract_concelho_and_posto(page_text) ==
    Only({ IF s = NoneVal \/ ~RegionFound(s)
           THEN [concelho |-> NoneVal, posto |-> NoneVal]
           ELSE Only({RegionGroups(s, m) : m \in {RegionPlaces(s, RegionStart(s))}})
           : s \in {page_text} })

----------------------------------------------------------------------------
(* determine_type *)

StemNational  == <<"n","a","c","i","o","n","a">>
StemForeigner == <<"e","s","t","r","a","n","g","e","i","r","o">>
TypeNational  == <<"n","a","c","i","o","n","a","i","s">>
TypeForeign   == <<"e","s","t","r","a","n","g","e","i","r","o","s">>
TypeUnknown   == <<"u","n","k","n","o","w","n">>

determine_type(file_name) ==
    Only({ IF Contains(low, StemNational) THEN TypeNational
           ELSE IF Contains(low, StemForeigner) THEN TypeForeign
           ELSE TypeUnknown : low \in {Lower(file_name)} })

----------------------------------------------------------------------------
(* process_cells *)

\* CellStep with the first date-carrying line kept instead of the last
CellStepFirstDateWins(st, cell) ==
    Only({ IF Truthy(nd.date)
           THEN IF st.nome_completo = <<>>
                THEN [st EXCEPT !.data_nascimento = nd.date, !.nome_completo = nd.name]
                ELSE st
           ELSE [st EXCEPT !.parent_2 = nd.name]
           : nd \in {extract_name_and_date(Strip(cell))} })

\* one pass of the loop over cells[1:]; st holds nome_completo, parent_2 and
\* data_nascimento
CellStep(st, cell) ==
    Only({ IF Truthy(nd.date)
           THEN [st EXCEPT !.data_nascimento = nd.date, !.nome_completo = nd.name]
           ELSE [st EXCEPT !.parent_2 = nd.name]
           : nd \in {extract_name_and_date(Strip(cell))} })

RECURSIVE CellLoop(_, _, _)
CellLoop(st, cells, k) ==
    IF k > Len(cells) THEN st ELSE CellLoop(CellStep(st, cells[k]), cells, k + 1)

\* The fallback assigns parent_1 = parent_2 to the function's own parameter,
\* which is not among the returned values: the caller keeps its parent_1.
process_cells(cells, parent_1, date_in_parent_1) ==
    LET st0 == [nome_completo   |-> <<>>,
                parent_2        |-> <<>>,
                data_nascimento |-> IF Truthy(date_in_parent_1)
                                    THEN date_in_parent_1 ELSE <<>>]
    IN  Only({ IF ~Truthy(st.nome_completo)
               THEN [st EXCEPT !.nome_completo = parent_1, !.parent_2 = <<>>]
               ELSE st
               : st \in {CellLoop(st0, cells, 2)} })

----------------------------------------------------------------------------
(* process_table *)

\* 'NOME COMPLETO FILIAÇÃO DATA NASC.º'
HeaderRow ==
    <<"N","O","M","E"," ","C","O","M","P","L","E","T","O"," ",
      "F","I","L","I","A","Ç","Ã","O"," ","D","A","T","A"," ",
      "N","A","S","C",".","º">>

\* row[0] raises: the row has no cell (IndexError)
RowIndexFault(row) == row = <<>>

\* row[0].split raises: the cell is None (AttributeError)
RowSplitFault(row) == row # <<>> /\ row[1] = NoneVal

RowFault(row) == RowIndexFault(row) \/ RowSplitFault(row)

IsHeaderRow(row) == row[1] = HeaderRow

\* len(cells) < 2
TooFewCells(cells) == Len(cells) < 2

\* RowKept with the rows that carry no date dropped as well
RowKeptIfDated(row) ==
    ~IsHeaderRow(row) /\ ~TooFewCells(Split(row[1])) /\ HasDate(row[1])

\* the row's first cell is neither the header nor short: the row gives a record
RowKept(row) == ~IsHeaderRow(row) /\ ~TooFewCells(Split(row[1]))

\* row_dict from parent_1 and date_in_parent_1 (first) and from what
\* process_cells returns (rest)
RowFields(first, rest, c, p, ft, path) ==
    [nome_completo   |-> rest.nome_completo,
     parent_1        |-> first.name,
     parent_2        |-> rest.parent_2,
     data_nascimento |-> rest.data_nascimento,
     concelho        |-> c,
     posto           |-> p,
     type            |-> ft,
     file_name       |-> Basename(path)]

\* row_dict of a row that is kept
RowDict(row, c, p, ft, path) ==
    Only({ Only({ Only({ RowFields(first, rest, c, p, ft, path)
                         : rest \in {process_cells(cells, first.name, first.date)} })
                  : first \in {extract_name_and_date(Strip(cells[1]))} })
           : cells \in {Split(row[1])} })

\* the loop over the rows from row k on, acc being data so far; an exception
\* leaves the loop and the function returns what data holds
RECURSIVE TableLoop(_, _, _, _, _, _, _)
TableLoop(tbl, k, acc, c, p, ft, path) ==
    IF k > Len(tbl) THEN acc
    ELSE IF RowFault(tbl[k]) THEN acc
    ELSE IF RowKept(tbl[k])
         THEN TableLoop(tbl, k + 1, Append(acc, RowDict(tbl[k], c, p, ft, path)),
                        c, p, ft, path)
         ELSE TableLoop(tbl, k + 1, acc, c, p, ft, path)

process_table(tbl, c, p, ft, path) ==
    Only({TableLoop(t, 1, <<>>, c, p, ft, path) : t \in {tbl}})

----------------------------------------------------------------------------
(* extract_tables_from_pdf *)

\* A page as pdfplumber gives it: extract_text() raises or returns text (a
\* string or None), extract_tables() raises or returns tables.  A document:
\* pdfplumber.open raises (opens = FALSE) or yields the pages.

\* NeedsRegion without the test: the labels are extracted on every page
NeedsRegionAlways(c, p) == TRUE

\* not concelho or not posto
NeedsRegion(c, p) == ~Truthy(c) \/ ~Truthy(p)

\* for table in tables: data.extend(process_table(...))
RECURSIVE ExtendTables(_, _, _, _, _, _, _)
ExtendTables(acc, tables, k, c, p, ft, path) ==
    IF k > Len(tables) THEN acc
    ELSE ExtendTables(acc \o process_table(tables[k], c, p, ft, path),
                      tables, k + 1, c, p, ft, path)

\* The body of the loop over the pages, from the values of concelho, posto and
\* data before it; raised tells that an exception left the body.
PageBody(c, p, d, ft, path, page) ==
    IF NeedsRegion(c, p) /\ page.text_raises
    THEN [concelho |-> c, posto |-> p, data |-> d, raised |-> TRUE]
    ELSE Only({
        IF page.tables_raises
        THEN [concelho |-> reg.concelho, posto |-> reg.posto, data |-> d,
              raised |-> TRUE]
        ELSE [concelho |-> reg.concelho, posto |-> reg.posto,
              data |-> ExtendTables(d, page.tables, 1, reg.concelho, reg.posto,
                                    ft, path),
              raised |-> FALSE]
        : reg \in {IF NeedsRegion(c, p)
                   THEN extract_concelho_and_posto(page.text)
                   ELSE [concelho |-> c, posto |-> p]} })

\* the loop over the pages from page k on; the except clause around the loop
\* ends it at the first exception
RECURSIVE PagesLoop(_, _, _, _, _)
PagesLoop(st, pages, k, ft, path) ==
    IF k > Len(pages) \/ st.raised THEN st
    ELSE Only({PagesLoop(nx, pages, k + 1, ft, path) :
               nx \in {PageBody(st.concelho, st.posto, st.data, ft, path, pages[k])}})

extract_tables_from_pdf(path, doc) ==
    LET st0 == [concelho |-> NoneVal, posto |-> NoneVal, data |-> <<>>,
                raised |-> FALSE]
    IN  Only({ [data |-> st.data, concelho |-> st.concelho, posto |-> st.posto]
               : st \in {IF doc.opens
                         THEN Only({PagesLoop(st0, doc.pages, 1, ft, path) :
                                    ft \in {determine_type(path)}})
                         ELSE st0} })

----------------------------------------------------------------------------
(* insert_data_into_mysql *)

\* A fault of the sinks while one file is handled: at names the call that
\* raises ("none", "connect", "execute", "commit", "close", "excel"), row the
\* row whose cursor.execute raises.

\* the insert raises before conn.commit() has returned
InsertRaises(rows, fault) ==
    \/ fault.at \in {"connect", "commit"}
    \/ fault.at = "execute" /\ fault.row <= Len(rows)

\* the rows whose cursor.execute returned
Executed(rows, fault) ==
    IF fault.at = "connect" THEN <<>>
    ELSE IF fault.at = "execute" /\ fault.row <= Len(rows)
    THEN SubSeq(rows, 1, fault.row - 1)
    ELSE rows

\* insert_data_into_mysql on a connection that commits each executed row
InsertAutocommit(rows, fault) == Executed(rows, fault)

\* The rows the call leaves committed.  The connection does not autocommit:
\* executed rows are committed by conn.commit() alone, and when an exception
\* skips it they are dropped with the connection.
insert_data_into_mysql(rows, fault) ==
    IF InsertRaises(rows, fault) THEN <<>> ELSE Executed(rows, fault)

\* df.to_excel: the rows written to the spreadsheet of the file
to_excel(rows, fault) == IF fault.at = "excel" THEN <<>> ELSE rows

----------------------------------------------------------------------------
(* find_pdf_files *)

IgnoreKeywords ==
    << <<"P","r","o","v","i","s","ó","r","i","o">>,
       <<"E","l","i","m","i","n","a","d","o","s">>,
       <<"E","l","i","m","n","a","d","o">>,
       <<"E","l","i","m","i","n","a","d","o">>,
       <<"T","e","r","m","o">> >>

\* s.endswith(suf)
EndsWith(s, suf) == OccursAt(s, suf, Len(s) - Len(suf) + 1)

\* the condition on a file name: a PDF whose name holds none of the keywords
Wanted(filename) ==
    Only({ /\ EndsWith(low, <<".","p","d","f">>)
           /\ \A k \in 1..Len(IgnoreKeywords) :
                  \A keyword \in {Lower(IgnoreKeywords[k])} : ~Contains(low, keyword)
           : low \in {Lower(filename)} })

\* os.path.join(dirpath, filename)
PathJoin(dirpath, filename) ==
    IF filename # <<>> /\ Head(filename) = "/" THEN filename
    ELSE IF dirpath = <<>> \/ dirpath[Len(dirpath)] = "/" THEN dirpath \o filename
    ELSE dirpath \o <<"/">> \o filename

\* The loop over what os.walk(root_folder) yields, entries being its files in
\* the order of the walk.  An entry also tells what its file does when it is
\* opened and when its records are stored; that goes with the path.
RECURSIVE FindLoop(_, _, _)
FindLoop(acc, entries, k) ==
    IF k > Len(entries) THEN acc
    ELSE FindLoop(IF Wanted(entries[k].filename)
                  THEN Append(acc, [path  |-> PathJoin(entries[k].dirpath,
                                                       entries[k].filename),
                                    pdf   |-> entries[k].pdf,
                                    fault |-> entries[k].fault])
                  ELSE acc,
                  entries, k + 1)

find_pdf_files(entries) == FindLoop(<<>>, entries, 1)

----------------------------------------------------------------------------
(* Sample texts *)

DateA == <<"0","1","-","0","2","-","1","9","9","0">>
DateB == <<"0","3","-","0","4","-","2","0","0","0">>

\* pieces a line given to extract_name_and_date is concatenated from: a
\* letter, a space, a carriage return, a digit, a hyphen and two dates
Pieces == {<<"Ã">>, <<" ">>, <<"\r">>, <<"1">>, <<"-">>, DateA, DateB}

RECURSIVE PieceLines(_)
PieceLines(n) ==
    IF n = 0 THEN {<<>>}
    ELSE PieceLines(n - 1) \cup {l \o q : l \in PieceLines(n - 1), q \in Pieces}

\* the lines a cell of a one-row table is made of
SampleLines ==
    { <<>>,
      <<"A","n","a">>,
      <<"\r","R","u","i"," ","S"," ">>,
      <<"E","v","a"," ">> \o DateA,
      DateB \o <<" ","I","v","o">>,
      DateB,
      DateA \o <<" ","L","u","a"," ">> \o DateA }

\* '\n'.join(lines)
RECURSIVE JoinLines(_)
JoinLines(ls) ==
    IF Len(ls) = 1 THEN ls[1] ELSE ls[1] \o <<"\n">> \o JoinLines(Tail(ls))

RECURSIVE SeqsUpTo(_, _)
SeqsUpTo(S, n) ==
    IF n = 0 THEN {<<>>}
    ELSE SeqsUpTo(S, n - 1) \cup {Append(q, x) : q \in SeqsUpTo(S, n - 1), x \in S}

\* tables of one row, whose first cell has 1..MaxLines sample lines
OneRowTables == {<< <<JoinLines(ls)>> >> : ls \in SeqsUpTo(SampleLines, MaxLines) \ {<<>>}}

\* rows of the tables of several rows: the header, a row without cells, a row
\* whose first cell is None, a row of one line, and rows that give a record
SampleRows ==
    { <<HeaderRow>>,
      <<>>,
      <<NoneVal, <<"x">> >>,
      << <<"Z","e">> >>,
      << <<"A","n","a","\n","R","u","i","\n","E","v","a"," ">> \o DateA, NoneVal >>,
      << DateB \o <<" ","I","v","o","\n","L","u","a">> >> }

Tables == OneRowTables \cup SeqsUpTo(SampleRows, MaxRows)

SamplePaths ==
    { <<"n","a","c","i","o","n","a","i","s","/","e","s","t","r","a","n","g","e","i","r","o","s",".","p","d","f">>,
      <<"d","/","S","C","_","N","A","C","I","O","N","A","I","S","_","E","s","t","r","a","n","g","e","i","r","o",".","P","D","F">>,
      <<"d","/","E","L","E","I","Ç","Ã","O",".","p","d","f">> }

\* the other arguments process_table is given in TableSpec
TablePath     == <<"d","/","l","i","s","t","a",".","p","d","f">>
TableConcelho == <<"P","r","a","i","a">>
TablePosto    == <<"S","u","l">>

----------------------------------------------------------------------------
(* Sample documents *)

\* page texts: no text object, a text that ends after "Concelho ", both labels, a Posto that is only
\* the stray "N", labels with a no-break space, an accented letter and a line
\* that ends in CR LF, an empty Concelho
SampleTexts ==
    { NoneVal,
      <<"L","i","s","t","a","\n","C","o","n","c","e","l","h","o"," ">>,
      <<"C","o","n","c","e","l","h","o"," ",":"," ","P","r","a","i","a"," ","P","o","s","t","o"," ",":"," ","S","u","l"," ","N">>,
      <<"C","o","n","c","e","l","h","o",":"," ","P","r","a","i","a"," ","P","o","s","t","o",":"," ","N">>,
      <<"x"," ","C","o","n","c","e","l","h","o",":"," ","S","ã","o"," ","F","i","l","i","p","e","\r","\n","P","o","s","t","o",":"," ","V","i","l","a","-","N","o","r","t","e">>,
      <<"C","o","n","c","e","l","h","o"," ",":"," "," ","P","o","s","t","o"," ",":"," ","S","u","l">> }

TableOfTwo ==
    << <<HeaderRow>>,
       << <<"A","n","a","\n","R","u","i","\n","E","v","a"," ">> \o DateA >>,
       << DateB \o <<" ","I","v","o","\n","L","u","a">> >> >>
TableWithFault ==
    << << <<"G","i","l"," ">> \o DateA \o <<"\n","B","i","a">> >>,
       <<NoneVal>>,
       << <<"T","o","m","\n","U","n","a">> >> >>

SampleTableLists == { <<>>, <<TableOfTwo>>, <<TableWithFault, TableOfTwo>> }

SamplePages ==
    {[text_raises |-> FALSE, text |-> t, tables_raises |-> FALSE, tables |-> ts] :
        t \in SampleTexts, ts \in SampleTableLists}
    \cup {[text_raises |-> TRUE, text |-> NoneVal, tables_raises |-> FALSE, tables |-> ts] :
        ts \in SampleTableLists}
    \cup {[text_raises |-> FALSE, text |-> t, tables_raises |-> TRUE, tables |-> <<>>] :
        t \in SampleTexts}

\* pdfplumber.open raises
NoPdf == [opens |-> FALSE, pages |-> <<>>]

SamplePdfs ==
    {NoPdf} \cup {[opens |-> TRUE, pages |-> ps] : ps \in SeqsUpTo(SamplePages, MaxPages)}

----------------------------------------------------------------------------
(* Values of the variables a specification does not use *)

NoResult == [name |-> NoneVal, date |-> NoneVal]
NoReturn == [data |-> <<>>, concelho |-> NoneVal, posto |-> NoneVal, returned |-> FALSE]

TagIdle   == text = <<>> /\ tagged = NoResult
TableIdle == table = <<>> /\ table_out = <<>>
DocIdle   ==
    /\ pdf_path = <<>> /\ pdf = NoPdf /\ page_i = 0
    /\ concelho = NoneVal /\ posto = NoneVal /\ file_type = <<>>
    /\ data = <<>> /\ ret = NoReturn
MainIdle  ==
    /\ walk = <<>> /\ pdf_files = <<>> /\ file_i = 0
    /\ handed = <<>> /\ db = <<>> /\ xlsx = <<>> /\ save_to_excel = FALSE

----------------------------------------------------------------------------
(* TaggerSpec: extract_name_and_date on one line *)

TagInit ==
    /\ pc = "tag_call"
    /\ text \in PieceLines(MaxPieces)
    /\ tagged = NoResult
    /\ TableIdle /\ DocIdle /\ MainIdle

ExtractNameAndDate ==
    /\ pc = "tag_call"
    /\ tagged' = extract_name_and_date(text)
    /\ pc' = "tag_done"
    /\ UNCHANGED <<text, tableVars, docVars, mainVars>>

TagNext == ExtractNameAndDate

TaggerSpec == TagInit /\ [][TagNext]_vars

----------------------------------------------------------------------------
(* TableSpec: process_table on one table *)

TableInit ==
    /\ pc = "table_call"
    /\ table \in Tables
    /\ table_out = <<>>
    /\ TagIdle /\ DocIdle /\ MainIdle

ProcessTable ==
    /\ pc = "table_call"
    /\ table_out' = process_table(table, TableConcelho, TablePosto,
                                  determine_type(TablePath), TablePath)
    /\ pc' = "table_done"
    /\ UNCHANGED <<table, tagVars, docVars, mainVars>>

TableNext == ProcessTable

TableSpec == TableInit /\ [][TableNext]_vars

----------------------------------------------------------------------------
(* DocSpec: extract_tables_from_pdf on one document, one page per step *)

DocInit ==
    /\ pc = "doc_open"
    /\ pdf_path \in SamplePaths
    /\ pdf \in SamplePdfs
    /\ page_i = 0
    /\ concelho = NoneVal /\ posto = NoneVal
    /\ file_type = determine_type(pdf_path)
    /\ data = <<>>
    /\ ret = NoReturn
    /\ TagIdle /\ TableIdle /\ MainIdle

\* with pdfplumber.open(pdf_path) as pdf
OpenPdf ==
    /\ pc = "doc_open"
    /\ \/ pdf.opens /\ pc' = "doc_pages"
       \/ ~pdf.opens /\ pc' = "doc_return"
    /\ UNCHANGED <<pdf_path, pdf, page_i, concelho, posto, file_type, data, ret>>
    /\ UNCHANGED <<tagVars, tableVars, mainVars>>

\* one pass of the loop over pdf.pages
ProcessPage ==
    /\ pc = "doc_pages"
    /\ page_i < Len(pdf.pages)
    /\ \E r \in {PageBody(concelho, posto, data, file_type, pdf_path,
                           pdf.pages[page_i + 1])} :
           /\ concelho' = r.concelho
           /\ posto' = r.posto
           /\ data' = r.data
           /\ pc' = IF r.raised THEN "doc_return" ELSE "doc_pages"
    /\ page_i' = page_i + 1
    /\ UNCHANGED <<pdf_path, pdf, file_type, ret>>
    /\ UNCHANGED <<tagVars, tableVars, mainVars>>

\* return data, concelho, posto
ReturnData ==
    /\ \/ pc = "doc_return"
       \/ pc = "doc_pages" /\ page_i = Len(pdf.pages)
    /\ ret' = [data |-> data, concelho |-> concelho, posto |-> posto,
               returned |-> TRUE]
    /\ pc' = "doc_done"
    /\ UNCHANGED <<pdf_path, pdf, page_i, concelho, posto, file_type, data>>
    /\ UNCHANGED <<tagVars, tableVars, mainVars>>

DocNext == OpenPdf \/ ProcessPage \/ ReturnData

DocSpec == DocInit /\ [][DocNext]_vars

----------------------------------------------------------------------------
(* Spec: main's loop over the PDF files *)

SampleFaults ==
    {[at |-> a, row |-> 0] : a \in {"none", "connect", "commit", "close", "excel"}}
    \cup {[at |-> "execute", row |-> r] : r \in 1..2}

\* what pdfplumber gives for a file of one page and for a file whose second
\* page faults
PdfOfOnePage ==
    [opens |-> TRUE, pages |->
    << [text_raises |-> FALSE, text |-> <<"C","o","n","c","e","l","h","o"," ",":"," ","P","r","a","i","a"," ","P","o","s","t","o"," ",":"," ","S","u","l"," ","N">>,
        tables_raises |-> FALSE, tables |-> <<TableOfTwo>>] >>]
PdfOfTwoPages ==
    [opens |-> TRUE, pages |->
    << [text_raises |-> FALSE, text |-> <<"C","o","n","c","e","l","h","o",":"," ","M","a","i","o","\n","P","o","s","t","o",":"," ","V","i","l","a","-","N","o","r","t","e">>,
        tables_raises |-> FALSE, tables |-> <<TableWithFault>>],
       [text_raises |-> FALSE, text |-> NoneVal,
        tables_raises |-> TRUE, tables |-> <<>>] >>]

\* the files of the folder: an unreadable file, the two readable ones, and
\* three files that find_pdf_files leaves out
SampleFilePdfs ==
    { [dirpath |-> <<"d">>, filename |-> <<"N","a","c","i","o","n","a","i","s","_","2",".","P","D","F">>, pdf |-> NoPdf],
      [dirpath |-> <<"d">>, filename |-> <<"S","C","_","N","A","C","I","O","N","A","I","S",".","p","d","f">>, pdf |-> PdfOfOnePage],
      [dirpath |-> <<"e","/">>, filename |-> <<"e","s","t","r","a","n","g","e","i","r","o","s",".","p","d","f">>, pdf |-> PdfOfTwoPages] }
SampleIgnored ==
    { [dirpath |-> <<"d">>, filename |-> <<"T","e","r","m","o","s","_","n","a","c","i","o","n","a","i","s",".","p","d","f">>, pdf |-> PdfOfOnePage],
      [dirpath |-> <<"d">>, filename |-> <<"P","R","O","V","I","S","Ó","R","I","O","_","n","a","c","i","o","n","a","i","s",".","p","d","f">>, pdf |-> PdfOfOnePage],
      [dirpath |-> <<"d">>, filename |-> <<"n","a","c","i","o","n","a","i","s",".","p","d","f",".","t","x","t">>, pdf |-> PdfOfOnePage] }

\* a file without records has no row to execute and is not written to Excel
SampleFiles ==
    { e \in {[dirpath |-> f.dirpath, filename |-> f.filename, pdf |-> f.pdf, fault |-> x] :
                 f \in SampleFilePdfs, x \in SampleFaults} :
        e.pdf = NoPdf => e.fault.at \in {"none", "connect"} }
    \cup {[dirpath |-> f.dirpath, filename |-> f.filename, pdf |-> f.pdf,
           fault |-> [at |-> "none", row |-> 0]] : f \in SampleIgnored}

Init ==
    /\ pc = "main_start"
    /\ walk \in SeqsUpTo(SampleFiles, MaxFiles)
    /\ pdf_files = <<>>
    /\ save_to_excel = FALSE
    /\ file_i = 0
    /\ handed = <<>> /\ db = <<>> /\ xlsx = <<>>
    /\ TagIdle /\ TableIdle /\ DocIdle

\* pdf_files = find_pdf_files(root_folder), then the answer to the question
\* about Excel
FindPdfFiles ==
    /\ pc = "main_start"
    /\ pdf_files' = find_pdf_files(walk)
    /\ save_to_excel' \in BOOLEAN
    /\ pc' = "main_loop"
    /\ UNCHANGED <<walk, file_i, handed, db, xlsx>>
    /\ UNCHANGED <<tagVars, tableVars, docVars>>

\* one pass of the loop over pdf_files: every exception of the sinks is caught
\* in insert_data_into_mysql or by the except clause of the loop body
ProcessPdf ==
    /\ pc = "main_loop"
    /\ file_i < Len(pdf_files)
    /\ \E f \in {pdf_files[file_i + 1]} :
         \E r \in {extract_tables_from_pdf(f.path, f.pdf)} :
           /\ handed' = Append(handed, r.data)
           /\ db' = Append(db, insert_data_into_mysql(r.data, f.fault))
           /\ xlsx' = Append(xlsx, IF save_to_excel /\ r.data # <<>>
                                   THEN to_excel(r.data, f.fault) ELSE <<>>)
    /\ file_i' = file_i + 1
    /\ UNCHANGED <<pc, walk, pdf_files, save_to_excel>>
    /\ UNCHANGED <<tagVars, tableVars, docVars>>

\* print("Processing complete ...")
Complete ==
    /\ pc = "main_loop"
    /\ file_i = Len(pdf_files)
    /\ pc' = "main_done"
    /\ UNCHANGED <<mainVars, tagVars, tableVars, docVars>>

Next == FindPdfFiles \/ ProcessPdf \/ Complete

Spec == Init /\ [][Next]_vars

\* the loop is sequential code: it takes its next step whenever it has one
FairSpec == Spec /\ WF_vars(Next)

----------------------------------------------------------------------------
(* Properties of extract_name_and_date, under TaggerSpec *)

\* s with the leftmost occurrence of pat, and no other, taken out
RemoveOnce(s, pat) ==
    LET i == CHOOSE j \in 1..Len(s) :
                 OccursAt(s, pat, j) /\ \A h \in 1..(j - 1) : ~OccursAt(s, pat, h)
    IN  Slice(s, 1, i - 1) \o Slice(s, i + Len(pat), Len(s))

\* C3: for a line that contains a DD-DD-DDDD substring the returned date is the
\* first such occurrence and the returned name is the line with that one
\* occurrence removed once and then trimmed (a later copy of the same date text
\* stays); for a line without one, the line is returned unchanged with no date.
C3_RemovesFirstOccurrenceOnce ==
    pc = "tag_done" =>
        IF HasDate(text)
        THEN /\ tagged.date = FirstDate(text)
             /\ tagged.name = Strip(RemoveOnce(text, FirstDate(text)))
        ELSE /\ tagged.date = NoneVal
             /\ tagged.name = text

----------------------------------------------------------------------------
(* Properties of process_table, under TableSpec *)

\* the row has no first cell to split
NoCell(row) == row = <<>> \/ row[1] = NoneVal

\* rows 1..k of the table are all processed without a fault
ProcessedUpTo(k) == \A j \in 1..k : ~NoCell(table[j])

\* the row is the header or has fewer than 2 lines
Skipped(row) == row[1] = HeaderRow \/ Len(Split(row[1])) < 2

\* position in the output of the record of row k, when rows 1..k are
\* processed and row k is not skipped
RecordIndex(k) == Cardinality({j \in 1..k : ~Skipped(table[j])})

\* the rows the line-by-line claims are about
DataRows == {k \in 1..Len(table) : ProcessedUpTo(k) /\ ~Skipped(table[k])}

LinesOf(k) == Split(table[k][1])

\* the lines after the first that carry a date, and those that carry none
DateLines(k)  == {h \in 2..Len(LinesOf(k)) : HasDate(LinesOf(k)[h])}
PlainLines(k) == {h \in 2..Len(LinesOf(k)) : ~HasDate(LinesOf(k)[h])}
Last(S) == CHOOSE h \in S : \A g \in S : g <= h

\* name and date of line h of row k, as DateTagger gives them for the trimmed line
Tagged(k, h) == extract_name_and_date(Strip(LinesOf(k)[h]))

\* C1: a row of at least 2 lines, none of which after the first carries a date,
\* gives subjectName = first line without its date, parent1 = the last line
\* (trimmed), parent2 = "" and dateOfBirth = the first line's date or "".
C1_FallbackRecord ==
    pc = "table_done" =>
        \A k \in DataRows :
            DateLines(k) = {} /\ RecordIndex(k) <= Len(table_out) =>
                LET rec == table_out[RecordIndex(k)]
                IN  /\ rec.nome_completo = Tagged(k, 1).name
                    /\ rec.parent_1 = Strip(LinesOf(k)[Len(LinesOf(k))])
                    /\ rec.parent_2 = <<>>
                    /\ rec.data_nascimento =
                           IF HasDate(LinesOf(k)[1]) THEN Tagged(k, 1).date ELSE <<>>

\* what C2 says of the record of row k
DateAnchoredRecord(k) ==
    LET rec == table_out[RecordIndex(k)]
    IN  /\ rec.nome_completo = Tagged(k, Last(DateLines(k))).name
        /\ rec.data_nascimento = Tagged(k, Last(DateLines(k))).date
        /\ rec.parent_1 = Tagged(k, 1).name
        /\ rec.parent_2 = IF PlainLines(k) = {} THEN <<>>
                          ELSE Strip(LinesOf(k)[Last(PlainLines(k))])

\* C2 as stated: a row in which at least one line after the first carries a
\* date together with non-empty remaining text gives subjectName and
\* dateOfBirth from the LAST date-carrying line after the first, parent1 = the
\* first line without its date and parent2 = the last line without a date.
C2_AnyNamedDateLine ==
    pc = "table_done" =>
        \A k \in DataRows :
            /\ \E h \in DateLines(k) : Tagged(k, h).name # <<>>
            /\ RecordIndex(k) <= Len(table_out)
            => DateAnchoredRecord(k)

\* C2 amended: the same record, for the rows in which the LAST date-carrying
\* line after the first has non-empty remaining text.
C2_LastDateLineNamed ==
    pc = "table_done" =>
        \A k \in DataRows :
            /\ DateLines(k) # {}
            /\ Tagged(k, Last(DateLines(k))).name # <<>>
            => /\ RecordIndex(k) <= Len(table_out)
               /\ DateAnchoredRecord(k)

\* C2 witness: a processed row with two date-carrying lines after the first,
\* the last of them named, followed by a line without a date
C2_Witness ==
    /\ pc = "table_done"
    /\ \E k \in DataRows :
           /\ Cardinality(DateLines(k)) = 2
           /\ Tagged(k, Last(DateLines(k))).name # <<>>
           /\ PlainLines(k) # {}
           /\ Last(PlainLines(k)) > Last(DateLines(k))
           /\ table_out[RecordIndex(k)].parent_2 # <<>>

\* C4: in a table without faults a row gives no record if its first cell is
\* the header or has fewer than 2 lines, every other row gives exactly one
\* record, and the records are in row order.
C4_OneRecordPerDataRow ==
    pc = "table_done" /\ ProcessedUpTo(Len(table)) =>
        /\ Len(table_out) = Cardinality(DataRows)
        /\ \A k \in DataRows : table_out[RecordIndex(k)].parent_1 = Tagged(k, 1).name

\* C4 witness: a table without faults made of the header, a row of one line
\* and a row with a date, which gave one record
C4_Witness ==
    /\ pc = "table_done"
    /\ ProcessedUpTo(Len(table))
    /\ \E k \in 1..Len(table) : table[k][1] = HeaderRow
    /\ \E k \in 1..Len(table) : table[k][1] # HeaderRow /\ Skipped(table[k])
    /\ \E k \in DataRows : DateLines(k) # {}
    /\ Len(table_out) = 1

\* C7: a table in which some row faults contributes no record at all.
C7_FaultingTableIsEmpty ==
    pc = "table_done" /\ (\E k \in 1..Len(table) : NoCell(table[k])) =>
        table_out = <<>>

----------------------------------------------------------------------------
(* Properties of extract_tables_from_pdf, under DocSpec *)

LabelsSet(c, p) == Truthy(c) /\ Truthy(p)

\* the records the step appended to data
NewRecords == {data'[k] : k \in (Len(data) + 1)..Len(data')}

\* C5: once concelho and posto are both non-empty they keep their values on
\* every later page, whatever the extractor would return there, and every
\* record emitted from that page on and the returned labels carry them.
C5_LabelsSticky ==
    [][ /\ LabelsSet(concelho, posto) => concelho' = concelho /\ posto' = posto
        /\ LabelsSet(concelho', posto') =>
              /\ \A r \in NewRecords : r.concelho = concelho' /\ r.posto = posto'
              /\ ret'.returned => ret'.concelho = concelho' /\ ret'.posto = posto'
      ]_vars

\* C5 witness: the second page has been processed with both labels set from
\* the first, its own text carries other non-empty labels, and its records
\* are in data
C5_Witness ==
    /\ page_i = 2
    /\ LabelsSet(concelho, posto)
    /\ ~pdf.pages[1].text_raises
    /\ extract_concelho_and_posto(pdf.pages[1].text)
         = [concelho |-> concelho, posto |-> posto]
    /\ ~pdf.pages[2].text_raises
    /\ LET other == extract_concelho_and_posto(pdf.pages[2].text)
       IN  LabelsSet(other.concelho, other.posto) /\ other.concelho # concelho
    /\ pdf.pages[1].tables # <<>> /\ pdf.pages[2].tables # <<>>
    /\ Len(data) = 6
    /\ \A k \in 1..Len(data) : data[k].concelho = concelho /\ data[k].posto = posto

\* number of records the tables of a page give when nothing raises
RECURSIVE RecordCount(_, _)
RecordCount(tables, k) ==
    IF k > Len(tables) THEN 0
    ELSE Len(process_table(tables[k], <<>>, <<>>, <<>>, <<>>))
         + RecordCount(tables, k + 1)

RECURSIVE SumOver(_, _)
SumOver(pages, k) ==
    IF k > Len(pages) THEN 0
    ELSE (IF pages[k].text_raises \/ pages[k].tables_raises THEN 0
          ELSE RecordCount(pages[k].tables, 1))
         + SumOver(pages, k + 1)

\* C6: when text or table extraction raises on one page of a document, every
\* other page, those after it included, is still processed and its rows are
\* in the document's record list.
C6_OtherPagesStillProcessed ==
    ret.returned /\ pdf.opens => Len(ret.data) >= SumOver(pdf.pages, 1)

\* C9: every record carries the type got by classifying the file's name
\* alone (national stem first, then foreigner stem, else unknown), whatever
\* the case of the letters and the names of the directories.
C9_TypeFromFileName ==
    \A k \in 1..Len(data) : data[k].type = determine_type(Basename(pdf_path))

\* C10: a label that is non-empty is never reset to empty or None by a later
\* page on which the extractor finds nothing.
C10_LabelsMonotone ==
    [][ /\ Truthy(concelho) => Truthy(concelho')
        /\ Truthy(posto) => Truthy(posto')
      ]_vars

----------------------------------------------------------------------------
(* Properties of main's loop, under FairSpec *)

\* the insert of file i raised before its commit had returned
InsertFailed(i) ==
    \/ pdf_files[i].fault.at \in {"connect", "commit"}
    \/ pdf_files[i].fault.at = "execute" /\ pdf_files[i].fault.row <= Len(handed[i])

BatchKeepsGoing ==
    /\ Len(handed) = file_i /\ Len(db) = file_i /\ Len(xlsx) = file_i
    /\ \A i \in 1..file_i :
          /\ handed[i] = extract_tables_from_pdf(pdf_files[i].path, pdf_files[i].pdf).data
          /\ InsertFailed(i) => db[i] = <<>>
          /\ ~InsertFailed(i) => db[i] = handed[i]
    /\ pc = "main_done" => file_i = Len(pdf_files)

\* C8: a fault in one document (it cannot be opened, or its insert fails)
\* never stops the batch: every document is extracted and handed to the sinks
\* with its own records, a failed insert leaves none of its rows committed,
\* and the run reaches the completion message.
C8_BatchSurvivesFaults == [](BatchKeepsGoing) /\ <>(pc = "main_done")

\* C8 witness: the run is complete; the insert of the first of two files
\* failed at its second row and left nothing committed, the second file's
\* rows are committed
C8_Witness ==
    /\ pc = "main_done"
    /\ Len(pdf_files) = 2
    /\ pdf_files[1].fault = [at |-> "execute", row |-> 2]
    /\ Len(handed[1]) = 2
    /\ db[1] = <<>>
    /\ pdf_files[2].fault.at = "none"
    /\ db[2] # <<>>
    /\ db[2] = handed[2]

====
